---- MODULE Spec2Model ----
(***************************************************************************)
(* Model of aab/ui.py: UIBuilder, the Qt form/resource compilation step    *)
(* of the Anki add-on builder.                                             *)
(*                                                                         *)
(* Text (file names, file contents) is a sequence of one-character         *)
(* strings, so that pathlib's stem / with_suffix, the glob pattern and the *)
(* munging regular expression are computed character by character.         *)
(* Generated aggregator text keeps each literal piece of its template as   *)
(* one element of the sequence.                                            *)
(***************************************************************************)
EXTENDS Integers, Sequences, FiniteSets, TLC

VARIABLES
    \* ---- the file system and the environment of a build
    inDir,      \* [category -> [exists, listing]]: the input directory and its entries in listing order
    installed,  \* the executables `which` finds on the search path
    outTree,    \* [category -> [files, dirs: target -> [exists, files]]], files a set of <<name, text>>
    \* ---- the builder and the position of build() / _build()
    pc,         \* "idle" | "loop" | "check" | "cleanup" | "compile" | "post" | "init" | "done" | "failed"
    target,     \* the argument of the running (or last) build()
    ci,         \* index in the iteration over self._paths
    tool,       \* _build's local `tool`
    ui_files,   \* _build's local `ui_files`
    k,          \* index of in_file in ui_files
    modules,    \* _build's local `modules`
    passes,     \* number of build() calls so far
    \* ---- history of the running pass (ghost)
    log,        \* the steps of the running pass, in order
    pre,        \* outTree when the running pass started
    prevTarget, \* target of the pass before the running one, NoPass if none
    prevDone,   \* whether the pass before the running one completed normally
    \* ---- _munge_form on its own
    formFile,   \* the text of the compiled form file
    formOrig,   \* its text before munging (ghost)
    munged,     \* whether _munge_form has run
    \* ---- _get_format_dict on its own
    cfgStart,   \* config.get("copyright_start"): a year or None
    clockYear,  \* datetime.now().year
    years       \* format_dict["years"], NotBuilt before construction

vars == <<inDir, installed, outTree, pc, target, ci, tool, ui_files, k, modules,
          passes, log, pre, prevTarget, prevDone, formFile, formOrig, munged,
          cfgStart, clockYear, years>>

buildVars == <<inDir, installed, outTree, pc, target, ci, tool, ui_files, k,
               modules, passes, log, pre, prevTarget, prevDone>>
mungeVars == <<formFile, formOrig, munged>>
formatVars == <<cfgStart, clockYear, years>>
auxVars == <<formFile, formOrig, munged, cfgStart, clockYear, years>>

\* config.get("copyright_start") when the key is absent (Python's None)
None == -1
\* an input directory that does not exist
NoDir == [exists |-> FALSE, listing |-> <<>>]
Dir(l) == [exists |-> TRUE, listing |-> l]
\* no target yet, no tool yet, no format dict yet
NoPass == <<>>
NoTool == ""
NotBuilt == <<>>

(***************************************************************************)
(* Bounds                                                                  *)
(***************************************************************************)
MaxFiles == 2       \* input files per input directory
MaxPasses == 2      \* build() calls in one behaviour
MaxPieces == 4      \* pieces a form text is put together from
YearSpan == 9       \* years after 2015 the clock and the configuration range over

(***************************************************************************)
(* Text helpers                                                            *)
(***************************************************************************)
RECURSIVE Flatten(_)
Flatten(ss) == IF ss = <<>> THEN <<>> ELSE Head(ss) \o Flatten(Tail(ss))

\* str.rfind("."): the last index (1-based) of a dot, 0 when there is none
RFindDot(name) ==
    LET dots == {i \in 1..Len(name) : name[i] = "."}
    IN  IF dots = {} THEN 0 ELSE CHOOSE i \in dots : \A j \in dots : j <= i

EndsWith(s, suf) ==
    /\ Len(s) >= Len(suf)
    /\ SubSeq(s, Len(s) - Len(suf) + 1, Len(s)) = suf

StartsWith(s, pre_) ==
    /\ Len(s) >= Len(pre_)
    /\ SubSeq(s, 1, Len(pre_)) = pre_

\* "{}".format(n) for a natural number n
RECURSIVE Decimal(_)
Decimal(n) ==
    LET d == <<"0", "1", "2", "3", "4", "5", "6", "7", "8", "9">>
    IN  IF n < 10 THEN <<d[n + 1]>> ELSE Decimal(n \div 10) \o <<d[(n % 10) + 1]>>

(***************************************************************************)
(* _get_format_dict (ui.py 189-209)                                        *)
(***************************************************************************)
\* Python truth value of config.get("copyright_start"): None and 0 are false
Truthy(v) == v # None /\ v # 0

\* a builder that always formats a range
_get_format_dict_always_range(start_year, now) ==
    IF Truthy(start_year)
    THEN Decimal(start_year) \o <<"-">> \o Decimal(now)
    ELSE Decimal(now)

\* the "years" entry of the format dict
_get_format_dict(start_year, now) ==
    IF Truthy(start_year) /\ start_year # now
    THEN Decimal(start_year) \o <<"-">> \o Decimal(now)
    ELSE Decimal(now)

(***************************************************************************)
(* _re_munge and _munge_form (ui.py 77, 232-243)                           *)
(***************************************************************************)
ImportKw == <<"i", "m", "p", "o", "r", "t", " ">>
RcTail == <<"_", "r", "c">>
NL == "\n"

\* index of the first newline at or after i, Len(text) + 1 when there is none
LineEnd(text, i) ==
    LET nls == {j \in i..Len(text) : text[j] = NL}
    IN  IF nls = {} THEN Len(text) + 1 ELSE CHOOSE j \in nls : \A j2 \in nls : j <= j2

\* "^" under re.MULTILINE: the start of the text or just after a newline
AtLineStart(text, i) == i = 1 \/ text[i - 1] = NL

\* "import .+?_rc" up to "$": the rest of the line from i is "import ",
\* at least one character, "_rc"
LineMatches(text, i) ==
    LET line == SubSeq(text, i, LineEnd(text, i) - 1)
    IN  /\ AtLineStart(text, i)
        /\ Len(line) >= Len(ImportKw) + 1 + Len(RcTail)
        /\ StartsWith(line, ImportKw)
        /\ EndsWith(line, RcTail)

\* _re_munge matched at i: the index just past the match, 0 when it does not
\* match.  "(\n)?$": the newline is consumed only if "$" still matches after
\* it, that is at the end of the text or before another newline.
MatchEnd(text, i) ==
    LET e == LineEnd(text, i)
    IN  IF ~LineMatches(text, i) THEN 0
        ELSE IF e <= Len(text) /\ (e = Len(text) \/ text[e + 1] = NL) THEN e + 1
        ELSE e

\* _re_munge.sub("", form), scanning from index i
RECURSIVE ReSub(_, _)
ReSub(text, i) ==
    IF i > Len(text) THEN <<>>
    ELSE LET m == MatchEnd(text, i)
         IN  IF m > 0 THEN ReSub(text, m) ELSE <<text[i]>> \o ReSub(text, i + 1)

\* the text _munge_form leaves in the file: read, sub, seek(0), write, truncate
\* path.open("r+", encoding="utf-8") reads with universal newlines: f.read()
\* hands over every "\r\n" and every lone "\r" as "\n", and the text is
\* written back that way.
CR == "\r"

RECURSIVE UniversalNewlines(_, _)
UniversalNewlines(text, i) ==
    IF i > Len(text) THEN <<>>
    ELSE IF text[i] = CR
         THEN <<NL>> \o UniversalNewlines(text, IF i < Len(text) /\ text[i + 1] = NL
                                                 THEN i + 2 ELSE i + 1)
         ELSE <<text[i]>> \o UniversalNewlines(text, i + 1)

_munge_form(form) == ReSub(UniversalNewlines(form, 1), 1)

(***************************************************************************)
(* pathlib: PurePath.stem, .suffix, .with_suffix, Path.glob                *)
(***************************************************************************)
\* PurePath.suffix: from the last dot on, unless that dot is the first or the
\* last character of the name
Suffix(name) ==
    LET i == RFindDot(name)
    IN  IF 1 < i /\ i < Len(name) THEN SubSeq(name, i, Len(name)) ELSE <<>>

\* PurePath.stem: the name without its suffix
Stem(name) ==
    LET i == RFindDot(name)
    IN  IF 1 < i /\ i < Len(name) THEN SubSeq(name, 1, i - 1) ELSE name

\* PurePath.with_suffix(suffix): the old suffix, if any, is replaced
WithSuffix(name, suffix) ==
    IF Suffix(name) = <<>> THEN name \o suffix
    ELSE SubSeq(name, 1, Len(name) - Len(Suffix(name))) \o suffix

\* fnmatch of a name against a pattern "*<literal>"
FnMatch(name, pattern) == pattern[1] = "*" /\ EndsWith(name, Tail(pattern))

\* list(path_in.glob(pattern)): the matching entries, in listing order
Glob(listing, pattern) == SelectSeq(listing, LAMBDA n : FnMatch(n, pattern))

(***************************************************************************)
(* Class attributes and paths (ui.py 78-110)                               *)
(***************************************************************************)
Anki21 == <<"a", "n", "k", "i", "2", "1">>
Anki20 == <<"a", "n", "k", "i", "2", "0">>
Anki22 == <<"a", "n", "k", "i", "2", "2">>     \* a target _pyqt_version does not know
Targets == {Anki21, Anki20, Anki22}

_pyqt_version == (Anki21 :> "5") @@ (Anki20 :> "4")

_types ==
    [forms     |-> [pattern |-> <<"*", ".", "u", "i">>, tool |-> "pyuic",
                    post_build |-> TRUE, suffix |-> <<>>],
     resources |-> [pattern |-> <<"*", ".", "q", "r", "c">>, tool |-> "pyrcc",
                    post_build |-> FALSE, suffix |-> RcTail]]

\* the iteration order of self._paths.items(): the insertion order
ReversedOrder == <<"resources", "forms">>
CategoryOrder == <<"forms", "resources">>
Categories == {"forms", "resources"}

AllTools == {"pyuic5", "pyrcc5", "pyuic4", "pyrcc4"}

PySuffix == <<".", "p", "y">>
InitName == <<"_", "_", "i", "n", "i", "t", "_", "_", ".", "p", "y">>

\* "{tool}{nr}".format(...)
ToolName(ftype, t) == _types[ftype].tool \o _pyqt_version[t]

\* Path(path_out / new_stem).with_suffix(".py"): a "." component is dropped
\* by the join, and the file then lands beside the target directory
OutFile(t, new_stem) ==
    IF new_stem = <<".">>
    THEN [where |-> "base", name |-> WithSuffix(t, PySuffix)]
    ELSE [where |-> "dir", name |-> WithSuffix(new_stem, PySuffix)]

\* new_stem = in_file.stem + suffix
NewStem(ftype, in_file) == Stem(in_file) \o _types[ftype].suffix

(***************************************************************************)
(* The aggregator file (ui.py 52-73, 211-230)                              *)
(***************************************************************************)
RECURSIVE JoinText(_, _)
JoinText(sep, parts) ==
    IF parts = <<>> THEN <<>>
    ELSE IF Len(parts) = 1 THEN parts[1]
    ELSE parts[1] \o sep \o JoinText(sep, Tail(parts))

QuoteOpen == "    \""
QuoteClose == "\""
ImportStmt == "from . import "

_template_header(yrs) ==
    <<"# -*- coding: utf-8 -*-\n#\n# ", "{display_name}",
      " Add-on for Anki\n# Copyright (C)  ">> \o yrs
    \o <<" ", "{author}", " <", "{contact}",
         ">\n#\n# This file was automatically generated by ", "{__title__}", " v",
         "{__version__}",
         "\n# It is subject to the same licensing terms as the rest of the program",
         "\n# (see the LICENSE file which accompanies this program).\n#",
         "\n# WARNING! All changes made in this file will be lost!\n",
         "\n\"\"\"\nInitializes generated Qt forms/resources\n\"\"\"">>

_generate_all_str(mods) ==
    <<"__all__ = [\n">>
    \o JoinText(<<",\n">>, [i \in 1..Len(mods) |-> <<QuoteOpen>> \o mods[i] \o <<QuoteClose>>])
    \o <<"\n]">>

_generate_import_str(mods) ==
    JoinText(<<NL>>, [i \in 1..Len(mods) |-> <<ImportStmt>> \o mods[i]])

\* the text _write_init_file writes
InitText(mods, yrs) ==
    JoinText(<<"\n\n">>, <<_template_header(yrs), _generate_all_str(mods),
                           _generate_import_str(mods)>>) \o <<NL>>

(***************************************************************************)
(* The external compiler (the command call_shell runs, ui.py 171-175)      *)
(***************************************************************************)
\* What pyuic / pyrcc write to the file named after -o: a comment naming the
\* input and, for a form, the import of its resource module.
StubOutput(tl, in_file) ==
    <<"#", " ">> \o in_file \o <<NL>>
    \o (IF tl \in {"pyuic5", "pyuic4"}
        THEN ImportKw \o <<"r">> \o RcTail \o <<NL>>
        ELSE <<>>)

\* utils.call_shell(cmd): blocks until the process has exited; a non-zero
\* exit status is raised to the caller
call_shell(exit_status) == IF exit_status = 0 THEN "returned" ELSE "raised"

(***************************************************************************)
(* File system helpers                                                     *)
(***************************************************************************)
NoFiles == {}
Names(files) == {f[1] : f \in files}
FileText(files, name) == (CHOOSE f \in files : f[1] = name)[2]

\* path_out.exists()
DirExists(tree, t) == tree.dirs[t].exists

\* write (create or overwrite) one file
PutFile(files, name, text) == {f \in files : f[1] # name} \cup {<<name, text>>}

\* write the file at an OutFile place of target t
WriteAt(tree, t, place, text) ==
    IF place.where = "base"
    THEN [tree EXCEPT !.files = PutFile(@, place.name, text)]
    ELSE [tree EXCEPT !.dirs[t].files = PutFile(@, place.name, text)]

ReadAt(tree, t, place) ==
    IF place.where = "base"
    THEN FileText(tree.files, place.name)
    ELSE FileText(tree.dirs[t].files, place.name)

\* shutil.rmtree(path_out) if it exists, then path_out.mkdir(parents=True)
ResetDir(tree, t) == [tree EXCEPT !.dirs[t] = [exists |-> TRUE, files |-> NoFiles]]

(***************************************************************************)
(* Initial states                                                          *)
(***************************************************************************)
\* the listings of a directory holding at most MaxFiles of the given names
Listings(names) ==
    {l \in UNION {[1..n -> names] : n \in 0..MaxFiles} :
        \A i, j \in 1..Len(l) : i # j => l[i] # l[j]}

F_a_ui == <<"a", ".", "u", "i">>
F_b_ui == <<"b", ".", "u", "i">>
F_a_txt == <<"a", ".", "t", "x", "t">>
F_a_qrc == <<"a", ".", "q", "r", "c">>
F_b_qrc == <<"b", ".", "q", "r", "c">>
F_a_b_ui == <<"a", ".", "b", ".", "u", "i">>
F_dot_ui == <<".", "u", "i">>
F_dot_ui_ui == <<".", "u", "i", ".", "u", "i">>
F_dotdot_ui == <<".", ".", "u", "i">>
F_init_ui == <<"_", "_", "i", "n", "i", "t", "_", "_", ".", "u", "i">>

\* names as a project usually has them
UsualNames == [forms |-> {F_a_ui, F_b_ui}, resources |-> {F_a_qrc, F_b_qrc}]
\* also: a file the pattern does not match, a stem with a dot, hidden files,
\* a form called like the init file
OddNames == {F_a_ui, F_a_txt, F_a_b_ui, F_dot_ui, F_dot_ui_ui, F_dotdot_ui, F_init_ui}

OldName == <<"o", "l", "d", ".", "p", "y">>
OldText == <<"#", " ", "o", "l", "d", NL>>

\* no output yet
FreshTree == [files |-> NoFiles, dirs |-> [t \in Targets |-> [exists |-> FALSE, files |-> NoFiles]]]
\* the output of an earlier build of other inputs, for both known targets
StaleTree ==
    [files |-> NoFiles,
     dirs  |-> [t \in Targets |->
                  IF t \in {Anki21, Anki20}
                  THEN [exists |-> TRUE,
                        files |-> {<<OldName, OldText>>,
                                   <<InitName, InitText(<<Stem(OldName)>>, Decimal(2015))>>}]
                  ELSE [exists |-> FALSE, files |-> NoFiles]]]

\* the builder is constructed (ui.py 97-111), no build has run
BuilderIdle ==
    /\ pc = "idle"
    /\ target = NoPass
    /\ ci = 0
    /\ tool = NoTool
    /\ ui_files = <<>>
    /\ k = 0
    /\ modules = <<>>
    /\ passes = 0
    /\ log = <<>>
    /\ pre = outTree
    /\ prevTarget = NoPass
    /\ prevDone = FALSE

MungeParked == formFile = <<>> /\ formOrig = <<>> /\ munged = FALSE

FormatBuilt ==
    /\ cfgStart = 2016
    /\ clockYear = 2019
    /\ years = _get_format_dict(cfgStart, clockYear)

\* usual names, any set of installed tools, input directories present or not
InitUsual ==
    /\ inDir \in {[c \in Categories |-> IF c = "forms" THEN f ELSE r] :
                     f \in {NoDir} \cup {Dir(l) : l \in Listings(UsualNames.forms)},
                     r \in {NoDir} \cup {Dir(l) : l \in Listings(UsualNames.resources)}}
    /\ installed \in SUBSET AllTools
    /\ outTree \in {[c \in Categories |-> FreshTree], [c \in Categories |-> StaleTree]}

\* odd form names, everything installed
InitOdd ==
    /\ inDir \in {[c \in Categories |-> IF c = "forms" THEN Dir(f) ELSE Dir(<<F_a_qrc>>)] :
                     f \in Listings(OddNames)}
    /\ installed = AllTools
    /\ outTree = [c \in Categories |-> StaleTree]

Init ==
    /\ InitUsual \/ InitOdd
    /\ BuilderIdle
    /\ MungeParked
    /\ FormatBuilt

(***************************************************************************)
(* build and _build (ui.py 113-187), one action per step                   *)
(***************************************************************************)
Event(e, c, n) == [ev |-> e, cat |-> c, k |-> n]

filetype == CategoryOrder[ci]
InLoop == pc = "loop" /\ ci <= Len(CategoryOrder)

\* modules = []  (line 162)
StaleModules == modules
InitialModules == <<>>

\* build(target) is called: line 114, and the loop is entered
Build(t) ==
    /\ pc \in {"idle", "done", "failed"}
    /\ passes < MaxPasses
    /\ target' = t
    /\ ci' = 1
    /\ pc' = "loop"
    /\ passes' = passes + 1
    /\ log' = <<>>
    /\ pre' = outTree
    /\ prevTarget' = IF passes = 0 THEN NoPass ELSE target
    /\ prevDone' = (pc = "done")
    /\ UNCHANGED <<inDir, installed, outTree, tool, ui_files, k, modules, auxVars>>

\* lines 119-122: the input folder is missing, continue with the next type
SkipMissingInput ==
    /\ InLoop
    /\ ~inDir[filetype].exists
    /\ log' = Append(log, Event("skip", filetype, 0))
    /\ ci' = ci + 1
    /\ UNCHANGED <<inDir, installed, outTree, pc, target, tool, ui_files, k,
                   modules, passes, pre, prevTarget, prevDone, auxVars>>

\* lines 132-133: self._pyqt_version[target] raises KeyError
UnknownTarget ==
    /\ InLoop
    /\ inDir[filetype].exists
    /\ target \notin DOMAIN _pyqt_version
    /\ log' = Append(log, Event("error", filetype, 0))
    /\ pc' = "failed"
    /\ UNCHANGED <<inDir, installed, outTree, target, ci, tool, ui_files, k,
                   modules, passes, pre, prevTarget, prevDone, auxVars>>

\* lines 134-136: which(tool) is None, return False
SkipMissingTool ==
    /\ InLoop
    /\ inDir[filetype].exists
    /\ target \in DOMAIN _pyqt_version
    /\ ToolName(filetype, target) \notin installed
    /\ tool' = ToolName(filetype, target)
    /\ log' = Append(log, Event("skip", filetype, 0))
    /\ ci' = ci + 1
    /\ UNCHANGED <<inDir, installed, outTree, pc, target, ui_files, k, modules,
                   passes, pre, prevTarget, prevDone, auxVars>>

\* a skip that has already emptied the output directory
SkipNoFilesAfterReset ==
    /\ InLoop
    /\ inDir[filetype].exists
    /\ target \in DOMAIN _pyqt_version
    /\ ToolName(filetype, target) \in installed
    /\ Glob(inDir[filetype].listing, _types[filetype].pattern) = <<>>
    /\ tool' = ToolName(filetype, target)
    /\ ui_files' = <<>>
    /\ outTree' = [outTree EXCEPT ![filetype] = ResetDir(@, target)]
    /\ log' = Append(log, Event("skip", filetype, 0))
    /\ ci' = ci + 1
    /\ UNCHANGED <<inDir, installed, pc, target, k, modules, passes, pre,
                   prevTarget, prevDone, auxVars>>

\* lines 138-142: no input file matches the pattern, return False
SkipNoFiles ==
    /\ InLoop
    /\ inDir[filetype].exists
    /\ target \in DOMAIN _pyqt_version
    /\ ToolName(filetype, target) \in installed
    /\ Glob(inDir[filetype].listing, _types[filetype].pattern) = <<>>
    /\ tool' = ToolName(filetype, target)
    /\ ui_files' = <<>>
    /\ log' = Append(log, Event("skip", filetype, 0))
    /\ ci' = ci + 1
    /\ UNCHANGED <<inDir, installed, outTree, pc, target, k, modules, passes,
                   pre, prevTarget, prevDone, auxVars>>

\* lines 132-145: both checks pass
ChecksPass ==
    /\ InLoop
    /\ inDir[filetype].exists
    /\ target \in DOMAIN _pyqt_version
    /\ ToolName(filetype, target) \in installed
    /\ Glob(inDir[filetype].listing, _types[filetype].pattern) # <<>>
    /\ tool' = ToolName(filetype, target)
    /\ ui_files' = Glob(inDir[filetype].listing, _types[filetype].pattern)
    /\ log' = Append(log, Event("check", filetype, 0))
    /\ pc' = "cleanup"
    /\ UNCHANGED <<inDir, installed, outTree, target, ci, k, modules, passes,
                   pre, prevTarget, prevDone, auxVars>>

\* lines 147-162: the output directory is emptied, the module list starts empty
Cleanup ==
    /\ pc = "cleanup"
    /\ outTree' = [outTree EXCEPT ![filetype] = ResetDir(@, target)]
    /\ modules' = InitialModules
    /\ k' = 1
    /\ log' = Append(log, Event("reset", filetype, 0))
    /\ pc' = "compile"
    /\ UNCHANGED <<inDir, installed, target, ci, tool, ui_files, passes, pre,
                   prevTarget, prevDone, auxVars>>

\* lines 164-175: the compiler runs on ui_files[k] and writes out_file
CompileOk ==
    /\ pc = "compile"
    /\ \E status \in {0, 1} : call_shell(status) = "returned"
    /\ LET in_file == ui_files[k]
           out_file == OutFile(target, NewStem(filetype, in_file))
       IN  outTree' = [outTree EXCEPT ![filetype] =
                          WriteAt(@, target, out_file, StubOutput(tool, in_file))]
    /\ log' = Append(log, Event("compile", filetype, k))
    /\ pc' = "post"
    /\ UNCHANGED <<inDir, installed, target, ci, tool, ui_files, k, modules,
                   passes, pre, prevTarget, prevDone, auxVars>>

\* a failed compilation that is logged and passed over
CompileFailSwallowed ==
    /\ pc = "compile"
    /\ log' = Append(log, Event("fail", filetype, k))
    /\ IF k < Len(ui_files)
       THEN k' = k + 1 /\ pc' = "compile"
       ELSE k' = k /\ pc' = "init"
    /\ UNCHANGED <<inDir, installed, outTree, target, ci, tool, ui_files,
                   modules, passes, pre, prevTarget, prevDone, auxVars>>

\* line 175: call_shell fails on a non-zero exit and the error leaves build()
CompileFail ==
    /\ pc = "compile"
    /\ \E status \in {0, 1} : call_shell(status) = "raised"
    /\ log' = Append(log, Event("fail", filetype, k))
    /\ pc' = "failed"
    /\ UNCHANGED <<inDir, installed, outTree, target, ci, tool, ui_files, k,
                   modules, passes, pre, prevTarget, prevDone, auxVars>>

\* lines 177-180: the post-build step of the type, then modules.append
PostBuild ==
    /\ pc = "post"
    /\ LET in_file == ui_files[k]
           new_stem == NewStem(filetype, in_file)
           out_file == OutFile(target, new_stem)
       IN  /\ IF _types[filetype].post_build
              THEN /\ outTree' = [outTree EXCEPT ![filetype] =
                          WriteAt(@, target, out_file,
                                  _munge_form(ReadAt(@, target, out_file)))]
                   /\ log' = Append(log, Event("post", filetype, k))
              ELSE UNCHANGED <<outTree, log>>
           /\ modules' = Append(modules, new_stem)
    /\ IF k < Len(ui_files)
       THEN k' = k + 1 /\ pc' = "compile"
       ELSE k' = k /\ pc' = "init"
    /\ UNCHANGED <<inDir, installed, target, ci, tool, ui_files, passes, pre,
                   prevTarget, prevDone, auxVars>>

\* lines 184-187: the init file is written, _build returns True
WriteInit ==
    /\ pc = "init"
    /\ outTree' = [outTree EXCEPT ![filetype].dirs[target].files =
                      PutFile(@, InitName, InitText(modules, years))]
    /\ log' = Append(log, Event("init", filetype, 0))
    /\ ci' = ci + 1
    /\ pc' = "loop"
    /\ UNCHANGED <<inDir, installed, target, tool, ui_files, k, modules, passes,
                   pre, prevTarget, prevDone, auxVars>>

\* line 125: the loop is over, build returns
Finish ==
    /\ pc = "loop"
    /\ ci > Len(CategoryOrder)
    /\ pc' = "done"
    /\ UNCHANGED <<inDir, installed, outTree, target, ci, tool, ui_files, k,
                   modules, passes, log, pre, prevTarget, prevDone, auxVars>>

Next ==
    \/ \E t \in Targets : Build(t)
    \/ SkipMissingInput
    \/ UnknownTarget
    \/ SkipMissingTool
    \/ SkipNoFiles
    \/ ChecksPass
    \/ Cleanup
    \/ CompileOk
    \/ CompileFail
    \/ PostBuild
    \/ WriteInit
    \/ Finish

Spec == Init /\ [][Next]_vars

(***************************************************************************)
(* _munge_form alone: a form text is drawn, then munged                    *)
(***************************************************************************)
Pieces == {ImportKw \o <<"a">> \o RcTail, ImportKw, RcTail, <<NL>>, <<CR>>, <<"a">>, <<" ">>}

FormTexts == {Flatten(ps) : ps \in UNION {[1..n -> Pieces] : n \in 0..MaxPieces}}

BuildParked ==
    /\ inDir = [c \in Categories |-> NoDir]
    /\ installed = {}
    /\ outTree = [c \in Categories |-> FreshTree]
    /\ BuilderIdle

InitMunge ==
    /\ formFile \in FormTexts
    /\ formOrig = formFile
    /\ munged = FALSE
    /\ BuildParked
    /\ FormatBuilt

MungeForm ==
    /\ ~munged
    /\ formFile' = _munge_form(formFile)
    /\ munged' = TRUE
    /\ UNCHANGED <<formOrig, buildVars, formatVars>>

NextMunge == MungeForm

SpecMunge == InitMunge /\ [][NextMunge]_vars

(***************************************************************************)
(* _get_format_dict alone: a configuration and a date are drawn, then the  *)
(* builder is constructed                                                  *)
(***************************************************************************)
Years == 2016 .. (2016 + YearSpan)

InitFormat ==
    /\ cfgStart \in {None} \cup Years
    /\ clockYear \in Years
    /\ years = NotBuilt
    /\ BuildParked
    /\ MungeParked

\* __init__, line 111
Construct ==
    /\ years = NotBuilt
    /\ years' = _get_format_dict(cfgStart, clockYear)
    /\ UNCHANGED <<cfgStart, clockYear, buildVars, mungeVars>>

NextFormat == Construct

SpecFormat == InitFormat /\ [][NextFormat]_vars

(***************************************************************************)
(* Reading the state back: the log of the pass and the init file           *)
(***************************************************************************)
Happened(e, c, n) == \E i \in 1..Len(log) : log[i] = Event(e, c, n)
Skipped(c) == Happened("skip", c, 0)
Built(c) == Happened("init", c, 0)
LastEvent == log[Len(log)]

\* position of a category in the order build() is specified to follow
Rank(c) == IF c = "forms" THEN 1 ELSE 2

\* the input files of category c in discovery order
Discovered(c) == Glob(inDir[c].listing, _types[c].pattern)

\* the output directory of category c for the target of the pass
TargetDir(c) == outTree[c].dirs[target]

\* the pieces of text that start just after an element `open` and run up to
\* the next element in `close` (or the end of the text), in order
RECURSIVE Between(_, _, _, _)
Between(text, i, open, close) ==
    IF i > Len(text) THEN <<>>
    ELSE IF text[i] # open THEN Between(text, i + 1, open, close)
    ELSE LET ends == {j \in (i + 1)..Len(text) : text[j] \in close}
             e == IF ends = {} THEN Len(text) + 1
                  ELSE CHOOSE j \in ends : \A j2 \in ends : j <= j2
         IN  <<SubSeq(text, i + 1, e - 1)>> \o Between(text, e, open, close)

\* the strings listed in __all__ and the modules imported, read from the text
ManifestEntries(text) == Between(text, 1, QuoteOpen, {QuoteClose})
ImportEntries(text) == Between(text, 1, ImportStmt, {NL})

Distinct(seq) == \A i, j \in 1..Len(seq) : i # j => seq[i] # seq[j]
Range(seq) == {seq[i] : i \in 1..Len(seq)}

(***************************************************************************)
(* Claims                                                                  *)
(***************************************************************************)

\* C1: a category that build() skips (input directory missing, tool not on
\* the search path, or no input file matching) raises nothing and leaves the
\* category's output exactly as it was when the pass started; the output
\* directory is reset only after the tool and input checks have both passed.
C1_SkipLeavesOutputUntouched ==
    \A c \in Categories :
        /\ Skipped(c) =>
              /\ outTree[c] = pre[c]
              /\ SelectSeq(log, LAMBDA e : e.cat = c) = <<Event("skip", c, 0)>>
              /\ (LastEvent.cat = c => pc \in {"loop", "done"})
              /\ \/ ~inDir[c].exists
                 \/ ToolName(c, target) \notin installed
                 \/ Discovered(c) = <<>>
        /\ \A i \in 1..Len(log) :
              log[i] = Event("reset", c, 0) =>
                 /\ i > 1
                 /\ log[i - 1] = Event("check", c, 0)
                 /\ inDir[c].exists
                 /\ ToolName(c, target) \in installed
                 /\ Discovered(c) # <<>>

\* C1 witness: the forms tool is missing, the forms output of an earlier
\* build is on disk, and the pass went on to build the resources.
C1_Witness ==
    /\ pc = "done"
    /\ Skipped("forms")
    /\ inDir["forms"].exists
    /\ Discovered("forms") # <<>>
    /\ pre["forms"].dirs[target].files # {}
    /\ Built("resources")

\* C2: after a pass in which category c was built, the output directory holds
\* exactly one compiled file per input file, named stem + suffix + ".py", plus
\* the init file, and nothing else; the modules the init file names are the
\* compiled files on disk.
C2_OneCompiledFilePerInput ==
    \A c \in Categories :
        (pc = "done" /\ Built(c)) =>
            LET inputs == Discovered(c)
                names == Names(TargetDir(c).files)
                compiled == names \ {InitName}
            IN  /\ InitName \in names
                /\ compiled = {Stem(inputs[i]) \o _types[c].suffix \o PySuffix :
                                  i \in 1..Len(inputs)}
                /\ Cardinality(compiled) = Len(inputs)
                /\ {m \o PySuffix : m \in
                       Range(ManifestEntries(FileText(TargetDir(c).files, InitName)))}
                   = compiled

\* C3: after a pass in which category c was built, __all__ and the import
\* list of the init file each hold every module identifier exactly once, in
\* discovery order, and the identifiers are pairwise distinct.
C3_ManifestListsEachModuleOnce ==
    \A c \in Categories :
        (pc = "done" /\ Built(c)) =>
            LET inputs == Discovered(c)
                ids == [i \in 1..Len(inputs) |-> Stem(inputs[i]) \o _types[c].suffix]
                text == FileText(TargetDir(c).files, InitName)
            IN  /\ ManifestEntries(text) = ids
                /\ ImportEntries(text) = ids
                /\ Distinct(ManifestEntries(text))
                /\ Distinct(ImportEntries(text))

\* C4: a build for a target without a tool-version mapping never completes
\* normally.
C4_UnknownTargetAlwaysFails ==
    (pc # "idle" /\ target \notin DOMAIN _pyqt_version) => pc # "done"

\* C5: when the compiler fails on the k-th input file of a category, the
\* error leaves build(): the failure is the last step of the pass, so no later
\* file is compiled, the failed file is not post-processed, no init file is
\* written for the category and no later category is processed.
C5_CompileFailureAborts ==
    \A i \in 1..Len(log) :
        log[i].ev = "fail" =>
            LET c == log[i].cat
                n == log[i].k
            IN  /\ pc = "failed"
                /\ i = Len(log)
                /\ ~Happened("post", c, n)
                /\ ~Built(c)
                /\ \A j \in 1..Len(log) : Rank(log[j].cat) <= Rank(c)
                /\ \A j \in 1..Len(log) :
                      (log[j].ev = "compile" /\ log[j].cat = c) => log[j].k < n
                /\ modules = [j \in 1..(n - 1) |-> NewStem(c, ui_files[j])]
                /\ \A f \in TargetDir(c).files :
                      \E j \in 1..(n - 1) :
                          f[1] = OutFile(target, NewStem(c, ui_files[j])).name

\* C5 witness: the second form fails after the first one was compiled.
C5_Witness ==
    /\ pc = "failed"
    /\ Len(log) > 0
    /\ LastEvent = Event("fail", "forms", 2)
    /\ Happened("post", "forms", 1)
    /\ inDir["resources"].exists
    /\ Discovered("resources") # <<>>

\* C6: a pass that follows a completed pass for the same target (same input
\* files, same configuration, same year) leaves the output as that pass left
\* it; in particular every init file has the same text.
C6_RebuildIsIdempotent ==
    (pc = "done" /\ prevDone /\ prevTarget = target) =>
        /\ outTree = pre
        /\ \A c \in Categories :
              Built(c) =>
                 FileText(TargetDir(c).files, InitName)
                    = FileText(pre[c].dirs[target].files, InitName)

\* C6 witness: both categories were built twice in a row for the same target.
C6_Witness ==
    /\ pc = "done"
    /\ prevDone
    /\ prevTarget = target
    /\ Built("forms")
    /\ Built("resources")
    /\ Len(Discovered("forms")) = 2
    /\ pre # [c \in Categories |-> StaleTree]

\* The lines of a text, each with its terminator, and the text without its
\* "import <name>_rc" lines.
RECURSIVE Lines(_, _)
Lines(text, i) ==
    IF i > Len(text) THEN <<>>
    ELSE LET e == LineEnd(text, i)
         IN  <<SubSeq(text, i, IF e > Len(text) THEN Len(text) ELSE e)>>
             \o Lines(text, e + 1)

IsRcLine(line) ==
    LET bare == IF line # <<>> /\ line[Len(line)] = NL
                THEN SubSeq(line, 1, Len(line) - 1) ELSE line
    IN  /\ Len(bare) >= Len(ImportKw) + 1 + Len(RcTail)
        /\ StartsWith(bare, ImportKw)
        /\ EndsWith(bare, RcTail)

WithoutRcLines(text) == Flatten(SelectSeq(Lines(text, 1), LAMBDA l : ~IsRcLine(l)))

\* C7: munging removes exactly the lines "import <name>_rc", each with its
\* line terminator, wherever they stand, and leaves every other line as it
\* was, in order, with no line added or left behind.
C7_MungeRemovesExactlyRcLines ==
    munged => formFile = WithoutRcLines(formOrig)

\* Decimal numerals and their values.
IsNumeral(s) ==
    /\ s # <<>>
    /\ \A i \in 1..Len(s) : s[i] \in {"0", "1", "2", "3", "4", "5", "6", "7", "8", "9"}
    /\ (Len(s) > 1 => s[1] # "0")

RECURSIVE ParseNat(_)
ParseNat(s) ==
    LET v == [ch \in {"0", "1", "2", "3", "4", "5", "6", "7", "8", "9"} |->
                CASE ch = "0" -> 0 [] ch = "1" -> 1 [] ch = "2" -> 2 [] ch = "3" -> 3
                  [] ch = "4" -> 4 [] ch = "5" -> 5 [] ch = "6" -> 6 [] ch = "7" -> 7
                  [] ch = "8" -> 8 [] ch = "9" -> 9]
    IN  IF Len(s) = 1 THEN v[s[1]]
        ELSE 10 * ParseNat(SubSeq(s, 1, Len(s) - 1)) + v[s[Len(s)]]

\* C8: the year range is "{start}-{now}" exactly when a start year is
\* configured and differs from the current year, and "{now}" otherwise;
\* start 2016 and current year 2019 give "2016-2019".
C8_YearRange ==
    years # NotBuilt =>
        LET dashes == {i \in 1..Len(years) : years[i] = "-"}
        IN  /\ IF cfgStart # None /\ cfgStart # clockYear
               THEN /\ Cardinality(dashes) = 1
                    /\ LET d == CHOOSE i \in dashes : TRUE
                           left == SubSeq(years, 1, d - 1)
                           right == SubSeq(years, d + 1, Len(years))
                       IN  /\ IsNumeral(left) /\ ParseNat(left) = cfgStart
                           /\ IsNumeral(right) /\ ParseNat(right) = clockYear
               ELSE /\ dashes = {}
                    /\ IsNumeral(years) /\ ParseNat(years) = clockYear
            /\ (cfgStart = 2016 /\ clockYear = 2019) =>
                  years = <<"2", "0", "1", "6", "-", "2", "0", "1", "9">>

\* C8 witness: the builder was constructed with start year 2016 in 2019.
C8_Witness ==
    /\ years # NotBuilt
    /\ cfgStart = 2016
    /\ clockYear = 2019

\* The steps that may directly follow a step within one pass.
FirstSteps(c) == {Event("skip", c, 0), Event("error", c, 0), Event("check", c, 0)}

AfterFile(a) ==
    IF a.k < Len(Discovered(a.cat))
    THEN {Event("compile", a.cat, a.k + 1), Event("fail", a.cat, a.k + 1)}
    ELSE {Event("init", a.cat, 0)}

Follows(a, b) ==
    CASE a.ev \in {"skip", "init"} -> a.cat = "forms" /\ b \in FirstSteps("resources")
      [] a.ev = "check" -> b = Event("reset", a.cat, 0)
      [] a.ev = "reset" -> b \in {Event("compile", a.cat, 1), Event("fail", a.cat, 1)}
      [] a.ev = "compile" -> IF _types[a.cat].post_build
                             THEN b = Event("post", a.cat, a.k)
                             ELSE b \in AfterFile(a)
      [] a.ev = "post" -> b \in AfterFile(a)
      [] OTHER -> FALSE

\* C9: in every pass the forms are fully processed before the resources are
\* started, and within a category the steps are: the checks, the reset of the
\* output directory, one compiler run per input file in discovery order (each
\* followed by its post-processing where the category has one), and the init
\* file last, after the final file.
C9_StepOrder ==
    /\ Len(log) > 0 => log[1] \in FirstSteps("forms")
    /\ \A i \in 1..(Len(log) - 1) : Follows(log[i], log[i + 1])
    /\ pc \in {"cleanup", "compile", "post", "init"} => ui_files = Discovered(filetype)
    /\ pc \in {"compile", "post"} =>
          (k = 1 /\ LastEvent.ev = "reset") \/ LastEvent.k = IF pc = "post" THEN k ELSE k - 1

\* C9 witness: a pass that built two forms and then two resources.
C9_Witness ==
    /\ pc = "done"
    /\ Happened("post", "forms", 2)
    /\ Happened("compile", "resources", 2)
    /\ Built("forms")
    /\ Built("resources")

\* C10: a pass for target T changes nothing outside <output dir>/T of the two
\* categories: no file beside the target directories, and no directory of
\* another target, is created, changed or deleted.
C10_OnlyTargetDirsChange ==
    pc # "idle" =>
        \A c \in Categories :
            /\ outTree[c].files = pre[c].files
            /\ \A t \in Targets \ {target} : outTree[c].dirs[t] = pre[c].dirs[t]

====
